---- MODULE Spec2Model ----
(***************************************************************************)
(* Ledger & reservation engine of cargovera-api.                           *)
(*                                                                         *)
(* Money is kept in integer cents, as the *_cents columns do.  Every HTTP  *)
(* request runs in its own SQLAlchemy AsyncSession (db/session.py): the    *)
(* session's identity map is the request's private copy of the rows it has *)
(* loaded, and a later SELECT of a row already in the map - FOR UPDATE or  *)
(* not - returns the mapped object with its loaded attributes untouched    *)
(* (no populate_existing is used anywhere).  The database itself is        *)
(* PostgreSQL at READ COMMITTED: a commit applies the session's pending    *)
(* writes at once, a rollback discards them, row locks are released at the *)
(* end of the transaction.                                                 *)
(***************************************************************************)
EXTENDS Integers, Sequences, FiniteSets, TLC

\* ------------------------------------------------------------------ bounds
MaxOps == 3            \* requests started in one run of the ledger
MaxPieces == 2         \* pieces in one carrier purchase response
MaxInvOps == 3         \* requests started in one run of the warehouse
MaxErrors == 2         \* errors in one carrier response body
MaxCents == 60         \* Money amounts range over -MaxCents..MaxCents cents

\* ------------------------------------------------------------ small inputs
Procs == {"p1", "p2"}                 \* concurrently served requests
Users == {"u1", "u2"}
Buyers == {"u1"}                      \* users who pay in through the gateway
Carriers == {"FedEx", "USPS"}         \* carriers LabelService dispatches on
Routed == {"FedEx"}                   \* carriers the label routes pass on
Intents == {"pi_1"}
OrderNumbers == {"o1"}
NoOrder == "none"
RateQuotes == {600, 1200}             \* carrier quote for the shipment, cents
PiecePrices == {600}                  \* baseRateAmount / price of a piece, cents
AdjustAmounts == {-1500, 500}         \* TopUpRequest.amount, cents
PaymentAmounts == {2500}              \* PaymentRequest.amount, cents
InitBalance == [u \in Users |-> IF u = "u1" THEN 1000 ELSE 0]
Owner == "u1"                         \* owner_id of the inventory tuples
Holder == "u2"                        \* holder_id of the inventory tuples
Products == {"a", "b"}                \* AddInventoryRequest.product_id
AddQuantities == {0, 5}               \* AddInventoryRequest.available_qty
ItemQuantities == {4, 6}              \* FulfillmentItemCreate.quantity
LabelUrlLists == {<<1>>, <<2>>}       \* FulfillmentItemCreate.label_urls

is_admin(u) == u = "u2"
multiplier(u) == IF u = "u1" THEN 100 ELSE 150      \* hundredths

VARIABLES
    balance,      \* users.balance_cents, committed
    txlog,        \* transactions, in commit order
    labels,       \* labels rows
    orders,       \* orders.status by order_number
    payments,     \* payments rows by intent_id
    sold,         \* pieces the carriers have sold; the index is the tracking number
    locks,        \* row locks held: {<<row, proc>>}
    pc,           \* each request's position in its handler
    req,          \* each request's local variables
    session,      \* each request's identity map of User rows
    result,       \* outcome of the request a process served last
    ops,          \* requests started so far
    inventories,              \* inventories rows; the index is the id
    requests,                 \* fulfillment_requests rows with their items
    inventory_transactions,   \* inventory_transactions, in commit order
    work,         \* each warehouse request's local variables
    carrier,      \* the carrier call in progress, with its attempts
    money         \* the last Money / Decimal computation and its result

vars == <<balance, txlog, labels, orders, payments, sold, locks, pc, req,
          session, result, ops, inventories, requests, inventory_transactions,
          work, carrier, money>>

warehouse_vars == <<inventories, requests, inventory_transactions, work>>
ledger_vars == <<balance, txlog, orders, payments, sold, req, session>>
client_vars == <<carrier, money>>

NotLoaded == [loaded |-> FALSE, balance |-> 0]
Loaded(b) == [loaded |-> TRUE, balance |-> b]
EmptySession == [u \in Users |-> NotLoaded]

NoReq == [kind |-> "none", user |-> "none",
          order |-> NoOrder, tracking |-> 0, intent |-> "none",
          amount |-> 0, labels |-> <<>>, seen |-> 0, raced |-> 0,
          already |-> FALSE, quote |-> 0]

NoCall == [op |-> "none", state |-> "idle", attempts |-> 0, responses |-> <<>>,
           raised |-> "none", errors |-> <<>>, message |-> <<>>]

NoMoney == [op |-> "none", input |-> 0, scale |-> 2, factor |-> 0,
            raised |-> FALSE, output |-> 0, amount |-> [coef |-> 0, scale |-> 2],
            gateway |-> 0, stored |-> 0, credited |-> 0]

NoWork == [kind |-> "none", user |-> "none", product |-> "none", quantity |-> 0,
           items |-> <<>>, request |-> 0, reserved |-> <<>>, next |-> 0]

\* ----------------------------------------------------------------- helpers
RECURSIVE SumSeq(_)
SumSeq(s) == IF s = <<>> THEN 0 ELSE Head(s) + SumSeq(Tail(s))

Costs(ls) == [i \in 1..Len(ls) |-> ls[i].cost]

Abs(n) == IF n < 0 THEN 0 - n ELSE n

\* decimal's ROUND_HALF_UP of n / d to an integer, d > 0: to the nearest,
\* a tie away from zero.
RoundHalfUp(n, d) ==
    LET q == (2 * Abs(n) + d) \div (2 * d)
    IN IF n < 0 THEN 0 - q ELSE q

\* (init_value * multiplier).quantize(0.01, ROUND_HALF_UP), value in cents,
\* multiplier in hundredths; NegativeAmountException is raised before it
\* when init_value < 0.
apply_multiplier_to_rates(init_value, mult) == RoundHalfUp(init_value * mult, 100)

UserRow(u) == <<"user", u>>
LabelRow(t) == <<"label", t>>
PaymentRow(i) == <<"payment", i>>
InventoryRow(id) == <<"inventory", id>>
RequestRow(rid) == <<"request", rid>>

LockedByOther(row, p) == \E q \in Procs \ {p} : <<row, q>> \in locks
Release(p) == {l \in locks : l[2] # p}

InFlight(p) == pc[p] \notin {"idle", "done"}

\* deps.get_current_user: db.get(User, id) puts the acting user's row,
\* balance included, into the request's (empty) session.
get_current_user(u) == [EmptySession EXCEPT ![u] = Loaded(balance[u])]

\* SELECT ... FROM users: the identity map keeps a row it already holds.
LoadUser(p, u) ==
    IF session[p][u].loaded THEN session[p]
    ELSE [session[p] EXCEPT ![u] = Loaded(balance[u])]

\* A request is admitted: one more request served by process p.
Admit(p) ==
    /\ pc[p] \in {"idle", "done"}
    /\ ops < MaxOps
    /\ ops' = ops + 1

\* The request ends: its session is closed, which ends its transaction and
\* releases its row locks.  What is kept of its variables is what it did.
Finish(p, r, kept) ==
    /\ pc' = [pc EXCEPT ![p] = "done"]
    /\ result' = [result EXCEPT ![p] = r]
    /\ locks' = Release(p)
    /\ session' = [session EXCEPT ![p] = EmptySession]
    /\ req' = [req EXCEPT ![p] = kept]

Brief(r) == [NoReq EXCEPT !.kind = r.kind]
Kept(r) == [NoReq EXCEPT !.kind = r.kind, !.already = r.already]

\* -------------------------------------------------------------------- Init
Init ==
    /\ balance = InitBalance
    /\ txlog = <<[user |-> "u1", amount |-> 1000, new_balance |-> 1000,
                  type |-> "adjustment", note |-> 0]>>
    /\ labels = {}
    /\ orders = [o \in OrderNumbers |-> "new"]
    /\ payments = [i \in Intents |-> [status |-> "absent", user |-> "none", amount |-> 0]]
    /\ sold = <<>>
    /\ locks = {}
    /\ pc = [p \in Procs |-> "idle"]
    /\ req = [p \in Procs |-> NoReq]
    /\ session = [p \in Procs |-> EmptySession]
    /\ result = [p \in Procs |-> "none"]
    /\ ops = 0
    /\ inventories = <<>>
    /\ requests = <<>>
    /\ inventory_transactions = <<>>
    /\ work = [p \in Procs |-> NoWork]
    /\ carrier = NoCall
    /\ money = NoMoney

\* ---------------------------------------------------------------- buyLabel
PieceResponses == UNION {[1..n -> PiecePrices] : n \in 1..MaxPieces}

\* _buy_fedex_label / _buy_usps_label up to the balance check: the carrier's
\* rates are fetched and the multiplier-applied quote is compared with the
\* balance of the user object the authentication step loaded.
buy_label_rates(p, u, c, ord) ==
    /\ Admit(p)
    /\ c \in Carriers                  \* buy_label: any other carrier is refused
    /\ LET r0 == [NoReq EXCEPT !.kind = "buy", !.user = u, !.order = ord,
                               !.seen = balance[u]]
       IN \/ \* the rates call fails
             Finish(p, "external_service", Brief(r0))
          \/ \* no rate for the requested service type
             Finish(p, "rate_not_available", Brief(r0))
          \/ \E rate \in RateQuotes :
                LET estimated_rate == apply_multiplier_to_rates(rate, multiplier(u))
                IN IF get_current_user(u)[u].balance < estimated_rate
                   THEN \* InsufficientBalanceException(user.balance, filtered_rates[0])
                        Finish(p, "insufficient_balance",
                               [Brief(r0) EXCEPT !.user = u, !.quote = rate,
                                                 !.seen = get_current_user(u)[u].balance,
                                                 !.amount = rate])
                   ELSE /\ req' = [req EXCEPT ![p] = r0]
                        /\ session' = [session EXCEPT ![p] = get_current_user(u)]
                        /\ pc' = [pc EXCEPT ![p] = "buy_rated"]
                        /\ result' = [result EXCEPT ![p] = "none"]
                        /\ UNCHANGED locks
    /\ UNCHANGED <<balance, txlog, labels, orders, payments, sold>>
    /\ UNCHANGED warehouse_vars
    /\ UNCHANGED client_vars

\* The carrier purchase and the upload of each piece's label document; the
\* Label objects are built in memory, one per piece.
buy_label_purchase(p) ==
    /\ pc[p] = "buy_rated"
    /\ \/ \* the carrier refuses or cannot be reached
          /\ Finish(p, "external_service", Brief(req[p]))
          /\ UNCHANGED sold
       \/ \E prices \in PieceResponses :
             LET u == req[p].user
                 first == Len(sold)
                 pieces == [i \in 1..Len(prices) |-> [user |-> u, price |-> prices[i]]]
                 built == [i \in 1..Len(prices) |->
                              [tracking |-> first + i,
                               cost |-> apply_multiplier_to_rates(prices[i], multiplier(u))]]
             IN /\ sold' = sold \o pieces
                /\ \/ \* download_and_upload_label / upload_label_to_s3 raises
                      Finish(p, "external_service", Brief(req[p]))
                   \/ /\ req' = [req EXCEPT ![p].labels = built]
                      /\ pc' = [pc EXCEPT ![p] = "buy_prepared"]
                      /\ UNCHANGED <<result, locks, session>>
    /\ UNCHANGED <<balance, txlog, labels, orders, payments, ops>>
    /\ UNCHANGED warehouse_vars
    /\ UNCHANGED client_vars

\* Step 1: select(User).where(User.id == user.id).with_for_update()
buy_label_lock_user(p) ==
    /\ pc[p] = "buy_prepared"
    /\ ~LockedByOther(UserRow(req[p].user), p)
    /\ locks' = locks \cup {<<UserRow(req[p].user), p>>}
    /\ session' = [session EXCEPT ![p] = LoadUser(p, req[p].user)]
    /\ pc' = [pc EXCEPT ![p] = "buy_locked"]
    /\ UNCHANGED <<balance, txlog, labels, orders, payments, sold, req, result, ops>>
    /\ UNCHANGED warehouse_vars
    /\ UNCHANGED client_vars

\* The usage Transactions of a purchase: the balance is run down label by
\* label from the session's user object, each amount is the label's
\* cost_estimate as it stands.
RECURSIVE UsageTransactions(_, _, _)
UsageTransactions(u, bal, ls) ==
    IF ls = <<>> THEN <<>>
    ELSE <<[user |-> u, amount |-> Head(ls).cost,
            new_balance |-> bal - Head(ls).cost,
            type |-> "usage", note |-> Head(ls).tracking]>>
         \o UsageTransactions(u, bal - Head(ls).cost, Tail(ls))

LabelRows(r) ==
    {[tracking |-> r.labels[i].tracking, user |-> r.user,
      cost |-> r.labels[i].cost, status |-> "new"] : i \in 1..Len(r.labels)}

\* buy_label_commit with the Label rows and the balance committed ahead of
\* the Transactions, which are then lost to a failure.
buy_label_commit_partial(p) ==
    /\ pc[p] = "buy_locked"
    /\ LET u == req[p].user
           charge == SumSeq(Costs(req[p].labels))
       IN /\ balance' = [balance EXCEPT ![u] = session[p][u].balance - charge]
          /\ labels' = labels \cup LabelRows(req[p])
          /\ UNCHANGED <<txlog, orders>>
          /\ Finish(p, "database_error", Brief(req[p]))
    /\ UNCHANGED <<payments, sold, ops>>
    /\ UNCHANGED warehouse_vars
    /\ UNCHANGED client_vars

\* Steps 2-4: order status, Transactions, balance, db.commit(); any
\* exception rolls everything back.
buy_label_commit(p) ==
    /\ pc[p] = "buy_locked"
    /\ LET u == req[p].user
           charge == SumSeq(Costs(req[p].labels))
       IN \/ /\ balance' = [balance EXCEPT ![u] = session[p][u].balance - charge]
             /\ txlog' = txlog \o UsageTransactions(u, session[p][u].balance, req[p].labels)
             /\ labels' = labels \cup LabelRows(req[p])
             /\ orders' = IF req[p].order \in DOMAIN orders
                          THEN [orders EXCEPT ![req[p].order] = "shipped"]
                          ELSE orders
             /\ pc' = [pc EXCEPT ![p] = "done"]
             /\ result' = [result EXCEPT ![p] = "ok"]
             /\ locks' = Release(p)
             /\ session' = [session EXCEPT ![p] = EmptySession]
             /\ req' = [q \in Procs |->
                          IF q = p
                          THEN [Brief(req[p]) EXCEPT !.user = u, !.seen = req[p].seen,
                                                     !.raced = req[p].raced, !.amount = charge]
                          ELSE IF InFlight(q) /\ req[q].kind = "buy" /\ req[q].user = u
                               THEN [req[q] EXCEPT !.raced = charge]   \* history only
                               ELSE req[q]]
          \/ /\ UNCHANGED <<balance, txlog, labels, orders>>
             /\ Finish(p, "database_error", Brief(req[p]))
    /\ UNCHANGED <<payments, sold, ops>>
    /\ UNCHANGED warehouse_vars
    /\ UNCHANGED client_vars

\* ------------------------------------------------------------- cancelLabel
Label(t) == CHOOSE l \in labels : l.tracking = t
HasLabel(t) == \E l \in labels : l.tracking = t

\* cancel_label_carrier with the label marked cancelled although the
\* carrier's cancel call failed.
cancel_label_carrier_marking(p, u, c, t) ==
    /\ Admit(p)
    /\ c \in Carriers
    /\ HasLabel(t)
    /\ labels' = (labels \ {Label(t)}) \cup {[Label(t) EXCEPT !.status = "cancelled"]}
    /\ Finish(p, "external_service",
              Kept([NoReq EXCEPT !.kind = "cancel", !.user = u, !.tracking = t,
                                 !.already = Label(t).status = "cancelled"]))
    /\ UNCHANGED <<balance, txlog, orders, payments, sold>>
    /\ UNCHANGED warehouse_vars
    /\ UNCHANGED client_vars

\* _cancel_fedex_label / _cancel_usps_label, the carrier call: it comes
\* first and its failure ends the request.
cancel_label_carrier(p, u, c, t) ==
    /\ Admit(p)
    /\ c \in Carriers                  \* cancel_label: any other carrier is refused
    /\ LET r0 == [NoReq EXCEPT !.kind = "cancel", !.user = u, !.tracking = t,
                               !.already = HasLabel(t) /\ Label(t).status = "cancelled"]
       IN \/ Finish(p, "external_service", Kept(r0))
          \/ /\ req' = [req EXCEPT ![p] = r0]
             /\ session' = [session EXCEPT ![p] = get_current_user(u)]
             /\ pc' = [pc EXCEPT ![p] = "cancel_called"]
             /\ result' = [result EXCEPT ![p] = "none"]
             /\ UNCHANGED locks
    /\ UNCHANGED <<balance, txlog, labels, orders, payments, sold>>
    /\ UNCHANGED warehouse_vars
    /\ UNCHANGED client_vars

\* cancel_label_lock_label without the already-cancelled check.
cancel_label_lock_label_unchecked(p) ==
    /\ pc[p] = "cancel_called"
    /\ LET t == req[p].tracking
       IN /\ ~LockedByOther(LabelRow(t), p)
          /\ IF ~HasLabel(t) THEN Finish(p, "not_found", Kept(req[p]))
             ELSE /\ locks' = locks \cup {<<LabelRow(t), p>>}
                  /\ req' = [req EXCEPT ![p].amount = Label(t).cost]
                  /\ pc' = [pc EXCEPT ![p] = "cancel_label_locked"]
                  /\ UNCHANGED <<result, session>>
    /\ UNCHANGED <<balance, txlog, labels, orders, payments, sold, ops>>
    /\ UNCHANGED warehouse_vars
    /\ UNCHANGED client_vars

\* Step 1: select(Label).where(tracking_number == ...).with_for_update(),
\* then the not-found and already-cancelled checks on the row read.
cancel_label_lock_label(p) ==
    /\ pc[p] = "cancel_called"
    /\ LET t == req[p].tracking
       IN /\ ~LockedByOther(LabelRow(t), p)
          /\ IF ~HasLabel(t) THEN Finish(p, "not_found", Kept(req[p]))
             ELSE IF Label(t).status = "cancelled"
                  THEN Finish(p, "already_cancelled", Kept(req[p]))
                  ELSE /\ locks' = locks \cup {<<LabelRow(t), p>>}
                       /\ req' = [req EXCEPT ![p].amount = Label(t).cost]
                       /\ pc' = [pc EXCEPT ![p] = "cancel_label_locked"]
                       /\ UNCHANGED <<result, session>>
    /\ UNCHANGED <<balance, txlog, labels, orders, payments, sold, ops>>
    /\ UNCHANGED warehouse_vars
    /\ UNCHANGED client_vars

\* Step 2: select(User).where(User.id == user.id).with_for_update()
cancel_label_lock_user(p) ==
    /\ pc[p] = "cancel_label_locked"
    /\ ~LockedByOther(UserRow(req[p].user), p)
    /\ locks' = locks \cup {<<UserRow(req[p].user), p>>}
    /\ session' = [session EXCEPT ![p] = LoadUser(p, req[p].user)]
    /\ pc' = [pc EXCEPT ![p] = "cancel_locked"]
    /\ UNCHANGED <<balance, txlog, labels, orders, payments, sold, req, result, ops>>
    /\ UNCHANGED warehouse_vars
    /\ UNCHANGED client_vars

\* Steps 3-4: label.status, the refund Transaction, the balance, commit.
cancel_label_commit(p) ==
    /\ pc[p] = "cancel_locked"
    /\ LET u == req[p].user
           t == req[p].tracking
           refund_amount == req[p].amount
           new_balance == session[p][u].balance + refund_amount
       IN \/ /\ labels' = (labels \ {Label(t)}) \cup {[Label(t) EXCEPT !.status = "cancelled"]}
             /\ balance' = [balance EXCEPT ![u] = new_balance]
             /\ txlog' = Append(txlog, [user |-> u, amount |-> refund_amount,
                                        new_balance |-> new_balance,
                                        type |-> "refund", note |-> t])
             /\ Finish(p, "ok", Kept(req[p]))
          \/ /\ UNCHANGED <<balance, txlog, labels>>
             /\ Finish(p, "database_error", Kept(req[p]))
    /\ UNCHANGED <<orders, payments, sold, ops>>
    /\ UNCHANGED warehouse_vars
    /\ UNCHANGED client_vars

\* ---------------------------------------------------------------- payments
\* create_payment_intent: the gateway creates the intent, the Payment row
\* is added in status initiated and committed.
create_payment_intent(p, u, i, amt) ==
    /\ Admit(p)
    /\ payments[i].status = "absent"
    /\ LET r0 == [NoReq EXCEPT !.kind = "intent", !.user = u, !.intent = i]
       IN \/ /\ payments' = [payments EXCEPT ![i] = [status |-> "initiated", user |-> u, amount |-> amt]]
             /\ Finish(p, "ok", Brief(r0))
          \/ /\ UNCHANGED payments
             /\ Finish(p, "database_error", Brief(r0))
    /\ UNCHANGED <<balance, txlog, labels, orders, sold>>
    /\ UNCHANGED warehouse_vars
    /\ UNCHANGED client_vars

\* _handle_failed_payment: the whole handler; a missing payment or a commit
\* failure is logged and the webhook still answers success.
handle_failed_payment(p, i) ==
    /\ Admit(p)
    /\ ~LockedByOther(PaymentRow(i), p)
    /\ LET r0 == [NoReq EXCEPT !.kind = "webhook_failed", !.intent = i]
       IN IF payments[i].status = "absent"
          THEN /\ UNCHANGED payments
               /\ Finish(p, "payment_not_found", Brief(r0))
          ELSE IF payments[i].status = "failure"
               THEN /\ UNCHANGED payments
                    /\ Finish(p, "no_op", Brief(r0))
               ELSE \/ /\ payments' = [payments EXCEPT ![i].status = "failure"]
                       /\ Finish(p, "ok", Brief(r0))
                    \/ /\ UNCHANGED payments
                       /\ Finish(p, "database_error", Brief(r0))
    /\ UNCHANGED <<balance, txlog, labels, orders, sold>>
    /\ UNCHANGED warehouse_vars
    /\ UNCHANGED client_vars

\* _handle_successful_payment, first statement: the Payment row is locked
\* and read, and selectinload(Payment.user) reads the user row (unlocked)
\* into the session.
handle_successful_payment_select(p, i) ==
    /\ Admit(p)
    /\ ~LockedByOther(PaymentRow(i), p)
    /\ LET r0 == [NoReq EXCEPT !.kind = "webhook_succeeded", !.intent = i]
       IN IF payments[i].status = "absent"
          THEN Finish(p, "payment_not_found", Brief(r0))
          ELSE IF payments[i].status = "success"
               THEN Finish(p, "no_op", Brief(r0))
               ELSE /\ locks' = locks \cup {<<PaymentRow(i), p>>}
                    /\ req' = [req EXCEPT ![p] = [r0 EXCEPT !.user = payments[i].user,
                                                          !.amount = payments[i].amount]]
                    /\ session' = [session EXCEPT ![p] =
                                     [EmptySession EXCEPT ![payments[i].user] =
                                         Loaded(balance[payments[i].user])]]
                    /\ pc' = [pc EXCEPT ![p] = "payment_selected"]
                    /\ result' = [result EXCEPT ![p] = "none"]
    /\ UNCHANGED <<balance, txlog, labels, orders, payments, sold>>
    /\ UNCHANGED warehouse_vars
    /\ UNCHANGED client_vars

\* select(User).where(User.id == payment.user_id).with_for_update()
handle_successful_payment_lock_user(p) ==
    /\ pc[p] = "payment_selected"
    /\ ~LockedByOther(UserRow(req[p].user), p)
    /\ locks' = locks \cup {<<UserRow(req[p].user), p>>}
    /\ session' = [session EXCEPT ![p] = LoadUser(p, req[p].user)]
    /\ pc' = [pc EXCEPT ![p] = "payment_locked"]
    /\ UNCHANGED <<balance, txlog, labels, orders, payments, sold, req, result, ops>>
    /\ UNCHANGED warehouse_vars
    /\ UNCHANGED client_vars

\* The credit, the deposit Transaction, payment.status = success, commit.
handle_successful_payment_commit(p) ==
    /\ pc[p] = "payment_locked"
    /\ LET u == req[p].user
           i == req[p].intent
           new_balance == session[p][u].balance + req[p].amount
       IN \/ /\ balance' = [balance EXCEPT ![u] = new_balance]
             /\ txlog' = Append(txlog, [user |-> u, amount |-> req[p].amount,
                                        new_balance |-> new_balance,
                                        type |-> "deposit", note |-> i])
             /\ payments' = [payments EXCEPT ![i].status = "success"]
             /\ Finish(p, "ok", Brief(req[p]))
          \/ /\ UNCHANGED <<balance, txlog, payments>>
             /\ Finish(p, "database_error", Brief(req[p]))
    /\ UNCHANGED <<labels, orders, sold, ops>>
    /\ UNCHANGED warehouse_vars
    /\ UNCHANGED client_vars

\* ------------------------------------------------------------------- admin
\* AdminService.update_balance, Step 1: the target user's row is locked;
\* the caller is the admin get_current_admin loaded.
update_balance_lock(p, admin, u, amt) ==
    /\ Admit(p)
    /\ is_admin(admin)
    /\ ~LockedByOther(UserRow(u), p)
    /\ locks' = locks \cup {<<UserRow(u), p>>}
    /\ session' = [session EXCEPT ![p] =
                      IF u = admin THEN get_current_user(admin)
                      ELSE [get_current_user(admin) EXCEPT ![u] = Loaded(balance[u])]]
    /\ req' = [req EXCEPT ![p] = [NoReq EXCEPT !.kind = "adjust", !.user = u, !.amount = amt]]
    /\ pc' = [pc EXCEPT ![p] = "adjust_locked"]
    /\ result' = [result EXCEPT ![p] = "none"]
    /\ UNCHANGED <<balance, txlog, labels, orders, payments, sold>>
    /\ UNCHANGED warehouse_vars
    /\ UNCHANGED client_vars

\* user_locked.balance += amount, the adjustment Transaction, commit.
update_balance_commit(p) ==
    /\ pc[p] = "adjust_locked"
    /\ LET u == req[p].user
           new_balance == session[p][u].balance + req[p].amount
       IN \/ /\ balance' = [balance EXCEPT ![u] = new_balance]
             /\ txlog' = Append(txlog, [user |-> u, amount |-> req[p].amount,
                                        new_balance |-> new_balance,
                                        type |-> "adjustment", note |-> 0])
             /\ Finish(p, "ok", Brief(req[p]))
          \/ /\ UNCHANGED <<balance, txlog>>
             /\ Finish(p, "database_error", Brief(req[p]))
    /\ UNCHANGED <<labels, orders, payments, sold, ops>>
    /\ UNCHANGED warehouse_vars
    /\ UNCHANGED client_vars

Next ==
    \E p \in Procs :
        \/ \E u \in Users, c \in Routed, ord \in OrderNumbers \cup {NoOrder} :
              buy_label_rates(p, u, c, ord)
        \/ buy_label_purchase(p)
        \/ buy_label_lock_user(p)
        \/ buy_label_commit(p)
        \/ \E u \in Users, c \in Routed, t \in 1..Len(sold) : cancel_label_carrier(p, u, c, t)
        \/ cancel_label_lock_label(p)
        \/ cancel_label_lock_user(p)
        \/ cancel_label_commit(p)
        \/ \E u \in Buyers, i \in Intents, amt \in PaymentAmounts : create_payment_intent(p, u, i, amt)
        \/ \E i \in Intents : handle_failed_payment(p, i)
        \/ \E i \in Intents : handle_successful_payment_select(p, i)
        \/ handle_successful_payment_lock_user(p)
        \/ handle_successful_payment_commit(p)
        \/ \E admin \in Users, u \in Users, amt \in AdjustAmounts : update_balance_lock(p, admin, u, amt)
        \/ update_balance_commit(p)

Spec == Init /\ [][Next]_vars

\* =============================================================== warehouse
\* Inventories, fulfillment requests and inventory transactions.  The
\* (product, owner, holder) tuples in play are those of Products: Owner owns
\* them, Holder holds them.
\* A handler that reads its rows under FOR UPDATE and holds the locks to its
\* commit takes effect at the commit, so it is one step; a handler that reads
\* a row without a lock and writes later is two.

\* The warehouse after Owner has bought label 1 and stocked ten units of
\* product "a".
InitInv ==
    /\ balance = [InitBalance EXCEPT ![Owner] = 400]
    /\ txlog = <<[user |-> Owner, amount |-> 1000, new_balance |-> 1000,
                  type |-> "adjustment", note |-> 0],
                 [user |-> Owner, amount |-> 600, new_balance |-> 400,
                  type |-> "usage", note |-> 1]>>
    /\ labels = {[tracking |-> 1, user |-> Owner, cost |-> 600, status |-> "new"]}
    /\ orders = [o \in OrderNumbers |-> "new"]
    /\ payments = [i \in Intents |-> [status |-> "absent", user |-> "none", amount |-> 0]]
    /\ sold = <<[user |-> Owner, price |-> 600]>>
    /\ locks = {}
    /\ pc = [p \in Procs |-> "idle"]
    /\ req = [p \in Procs |-> NoReq]
    /\ session = [p \in Procs |-> EmptySession]
    /\ result = [p \in Procs |-> "none"]
    /\ ops = 0
    /\ inventories = <<[product |-> "a", owner |-> Owner, holder |-> Holder,
                        available_qty |-> 10, reserved_qty |-> 0,
                        status |-> "active"]>>
    /\ requests = <<>>
    /\ inventory_transactions =
          <<[inventory_id |-> 1, type |-> "credit", quantity |-> 10,
             source |-> "creation"]>>
    /\ work = [p \in Procs |-> NoWork]
    /\ carrier = NoCall
    /\ money = NoMoney

AdmitInv(p) ==
    /\ pc[p] \in {"idle", "done"}
    /\ ops < MaxInvOps
    /\ ops' = ops + 1

\* The request ends: its session is closed, which ends its transaction and
\* releases its row locks.
FinishKeeping(p, r, w) ==
    /\ pc' = [pc EXCEPT ![p] = "done"]
    /\ result' = [result EXCEPT ![p] = r]
    /\ work' = [work EXCEPT ![p] = w]
    /\ locks' = Release(p)

FinishInv(p, r, kind) == FinishKeeping(p, r, [NoWork EXCEPT !.kind = kind])

\* The request goes on to its next statement, holding the row locks held.
GoOn(p, at, w, held) ==
    /\ pc' = [pc EXCEPT ![p] = at]
    /\ result' = [result EXCEPT ![p] = "none"]
    /\ work' = [work EXCEPT ![p] = w]
    /\ locks' = locks \cup {<<row, p>> : row \in held}

InventoryIds == 1..Len(inventories)
Live(prod) == {id \in InventoryIds : /\ inventories[id].product = prod
                                      /\ inventories[id].status # "soft_deleted"}

\* add_inventory up to the result of its SELECT ... FOR UPDATE of the
\* tuple's live row: an existing row is incremented and committed under its
\* lock; no row leaves the insert for later; several rows make
\* scalar_one_or_none raise.
add_inventory(p, u, prod, qty) ==
    /\ AdmitInv(p)
    /\ u \in {Owner, Holder}
    /\ qty > 0 => \A id \in Live(prod) : ~LockedByOther(InventoryRow(id), p)
    /\ IF qty <= 0
       THEN /\ FinishInv(p, "invalid_quantity", "add")
            /\ UNCHANGED <<inventories, inventory_transactions>>
       ELSE IF Cardinality(Live(prod)) > 1
       THEN /\ FinishInv(p, "database_error", "add")
            /\ UNCHANGED <<inventories, inventory_transactions>>
       ELSE IF Cardinality(Live(prod)) = 1
       THEN LET id == CHOOSE i \in Live(prod) : TRUE
            IN \/ /\ inventories' = [inventories EXCEPT
                                        ![id].available_qty = @ + qty,
                                        ![id].status = "active"]
                  /\ inventory_transactions' =
                        Append(inventory_transactions,
                               [inventory_id |-> id, type |-> "credit",
                                quantity |-> qty, source |-> "creation"])
                  /\ FinishInv(p, "ok", "add")
               \/ /\ FinishInv(p, "database_error", "add")
                  /\ UNCHANGED <<inventories, inventory_transactions>>
       ELSE /\ GoOn(p, "add_selected",
                    [NoWork EXCEPT !.kind = "add", !.user = u, !.product = prod,
                                   !.quantity = qty], {})
            /\ UNCHANGED <<inventories, inventory_transactions>>
    /\ UNCHANGED <<requests, labels>>
    /\ UNCHANGED ledger_vars
    /\ UNCHANGED client_vars

\* add_inventory, the else branch: the new row and its credit are inserted.
add_inventory_insert(p) ==
    /\ pc[p] = "add_selected"
    /\ \/ /\ inventories' = Append(inventories,
                                   [product |-> work[p].product,
                                    owner |-> Owner, holder |-> Holder,
                                    available_qty |-> work[p].quantity,
                                    reserved_qty |-> 0, status |-> "active"])
          /\ inventory_transactions' =
                Append(inventory_transactions,
                       [inventory_id |-> Len(inventories) + 1, type |-> "credit",
                        quantity |-> work[p].quantity, source |-> "creation"])
          /\ FinishInv(p, "ok", "add")
       \/ /\ FinishInv(p, "database_error", "add")
          /\ UNCHANGED <<inventories, inventory_transactions>>
    /\ UNCHANGED <<requests, labels, ops>>
    /\ UNCHANGED ledger_vars
    /\ UNCHANGED client_vars

\* The items a client can send: an inventory id (the next free id stands
\* for an unknown one), a quantity and label ids.
Items ==
    {[inventory_id |-> id, quantity |-> q, label_urls |-> ls] :
        id \in 1..(Len(inventories) + 1), q \in ItemQuantities, ls \in LabelUrlLists}

\* FulfillmentRequestCreate.items: one item, or two of different known
\* inventories in the client's order.
ItemLists ==
    {<<i>> : i \in Items} \cup
    {l \in {<<i, j>> : i \in Items, j \in Items} :
        /\ l[1].inventory_id # l[2].inventory_id
        /\ {l[1].inventory_id, l[2].inventory_id} \subseteq InventoryIds}

\* create_fulfillment_request, "Check quantity availability and reserve":
\* the in-memory reserved_qty of the rows read, item by item; "short" when
\* an item does not fit, with the items left at that point.
RECURSIVE Reserve(_, _)
Reserve(rows, items) ==
    IF items = <<>> THEN [short |-> FALSE, reserved |-> rows, left |-> 0]
    ELSE LET item == Head(items)
             id == item.inventory_id
         IN IF inventories[id].available_qty - rows[id] < item.quantity
            THEN [short |-> TRUE, reserved |-> rows, left |-> Len(items)]
            ELSE Reserve([rows EXCEPT ![id] = @ + item.quantity], Tail(items))

\* A create_fulfillment_request that writes each reservation as it makes it:
\* an item that does not fit leaves the earlier items reserved.
create_fulfillment_request_select_partial(p, u, items) ==
    /\ AdmitInv(p)
    /\ items # <<>>
    /\ LET ids == {items[k].inventory_id : k \in 1..Len(items)}
           rows == [id \in ids \cap InventoryIds |-> inventories[id].reserved_qty]
       IN IF ~(ids \subseteq InventoryIds) \/ Cardinality(ids) # Len(items)
          THEN FinishInv(p, "not_found", "create") /\ UNCHANGED inventories
          ELSE IF \E id \in ids : inventories[id].owner # u
          THEN FinishInv(p, "not_owner", "create") /\ UNCHANGED inventories
          ELSE IF \E id \in ids : inventories[id].status # "active"
          THEN FinishInv(p, "not_active", "create") /\ UNCHANGED inventories
          ELSE IF Reserve(rows, items).short
          THEN /\ FinishKeeping(p, "not_enough",
                                [NoWork EXCEPT
                                    !.kind = "create",
                                    !.next = Len(items) + 1 - Reserve(rows, items).left])
               /\ inventories' =
                     [id \in InventoryIds |->
                         IF id \in ids
                         THEN [inventories[id] EXCEPT
                                 !.reserved_qty = Reserve(rows, items).reserved[id]]
                         ELSE inventories[id]]
          ELSE /\ GoOn(p, "create_reserved",
                       [NoWork EXCEPT !.kind = "create", !.user = u, !.items = items,
                                      !.reserved = Reserve(rows, items).reserved], {})
               /\ UNCHANGED inventories
    /\ UNCHANGED <<requests, inventory_transactions, labels>>
    /\ UNCHANGED ledger_vars
    /\ UNCHANGED client_vars

\* create_fulfillment_request up to the try block: the inventories are read
\* with a plain SELECT, validated, and reserved on the objects in memory.
create_fulfillment_request_select(p, u, items) ==
    /\ AdmitInv(p)
    /\ items # <<>>
    /\ LET ids == {items[k].inventory_id : k \in 1..Len(items)}
           rows == [id \in ids \cap InventoryIds |-> inventories[id].reserved_qty]
       IN IF ~(ids \subseteq InventoryIds) \/ Cardinality(ids) # Len(items)
          THEN FinishInv(p, "not_found", "create")
          ELSE IF \E id \in ids : inventories[id].owner # u
          THEN FinishInv(p, "not_owner", "create")
          ELSE IF \E id \in ids : inventories[id].status # "active"
          THEN FinishInv(p, "not_active", "create")
          ELSE IF Reserve(rows, items).short
          THEN FinishKeeping(p, "not_enough",
                             [NoWork EXCEPT
                                 !.kind = "create",
                                 !.next = Len(items) + 1 - Reserve(rows, items).left])
          ELSE GoOn(p, "create_reserved",
                    [NoWork EXCEPT !.kind = "create", !.user = u, !.items = items,
                                   !.reserved = Reserve(rows, items).reserved], {})
    /\ UNCHANGED <<inventories, requests, inventory_transactions, labels>>
    /\ UNCHANGED ledger_vars
    /\ UNCHANGED client_vars

\* The try block: the flush writes each touched row's reserved_qty as it
\* stands in memory, waiting for a row another transaction has locked, and
\* inserts the request with its items; commit, or rollback on any exception.
\* send_fulfilment_email runs after the commit, inside the same try block:
\* what it raises reaches the caller as the block's DatabaseException.
create_fulfillment_request_commit(p) ==
    /\ pc[p] = "create_reserved"
    /\ \/ /\ \A id \in DOMAIN work[p].reserved : ~LockedByOther(InventoryRow(id), p)
          /\ inventories' =
                [id \in InventoryIds |->
                    IF id \in DOMAIN work[p].reserved
                    THEN [inventories[id] EXCEPT !.reserved_qty = work[p].reserved[id]]
                    ELSE inventories[id]]
          /\ requests' = Append(requests, [owner |-> work[p].user, holder |-> Holder,
                                           status |-> "pending",
                                           items |-> work[p].items])
          /\ \/ FinishInv(p, "ok", "create")
             \/ FinishInv(p, "notification_failed", "create")
       \/ /\ FinishInv(p, "database_error", "create")
          /\ UNCHANGED <<inventories, requests>>
    /\ UNCHANGED <<inventory_transactions, labels, ops>>
    /\ UNCHANGED ledger_vars
    /\ UNCHANGED client_vars

RequestIds == 1..Len(requests)

\* delete_fulfillment_request up to the try block: the request and its
\* items are read with a plain SELECT and checked.
delete_fulfillment_request_select(p, u, rid) ==
    /\ AdmitInv(p)
    /\ IF rid \notin RequestIds \/ requests[rid].status = "deleted"
       THEN FinishInv(p, "not_found", "delete_request")
       ELSE IF requests[rid].owner # u
       THEN FinishInv(p, "forbidden", "delete_request")
       ELSE IF requests[rid].status # "pending"
       THEN FinishInv(p, "not_pending", "delete_request")
       ELSE GoOn(p, "delete_selected",
                 [NoWork EXCEPT !.kind = "delete_request", !.user = u,
                                !.request = rid, !.items = requests[rid].items,
                                !.next = 1], {})
    /\ UNCHANGED <<inventories, requests, inventory_transactions, labels>>
    /\ UNCHANGED ledger_vars
    /\ UNCHANGED client_vars

Max(a, b) == IF a >= b THEN a ELSE b

\* delete_fulfillment_request, Step 1, the SELECT ... FOR UPDATE of the next
\* item's inventory: the request waits for the row, then holds it.
delete_fulfillment_request_lock(p) ==
    /\ pc[p] = "delete_selected"
    /\ LET k == work[p].next
           id == work[p].items[k].inventory_id
       IN \/ /\ ~LockedByOther(InventoryRow(id), p)
             /\ GoOn(p, IF k < Len(work[p].items) THEN "delete_selected"
                        ELSE "delete_locked",
                     [work[p] EXCEPT !.next = k + 1], {InventoryRow(id)})
          \/ FinishInv(p, "database_error", "delete_request")
    /\ UNCHANGED <<inventories, requests, inventory_transactions, labels, ops>>
    /\ UNCHANGED ledger_vars
    /\ UNCHANGED client_vars

\* Step 1 on the rows read: each item's reservation is taken off its
\* inventory, not below zero.
RECURSIVE ReleaseReserved(_, _)
ReleaseReserved(invs, items) ==
    IF items = <<>> THEN invs
    ELSE LET item == Head(items)
             id == item.inventory_id
         IN ReleaseReserved(IF id \in DOMAIN invs
                            THEN [invs EXCEPT ![id].reserved_qty =
                                                 Max(@ - item.quantity, 0)]
                            ELSE invs,
                            Tail(items))

\* The end of the try block: the reservations are released on the locked
\* rows, the request and its items are deleted (the DELETE waits for a
\* locked request row), commit.  The request is the object read before; a
\* row that is gone by now only draws a warning.
delete_fulfillment_request_commit(p) ==
    /\ pc[p] = "delete_locked"
    /\ \/ /\ ~LockedByOther(RequestRow(work[p].request), p)
          /\ inventories' = ReleaseReserved(inventories, work[p].items)
          /\ requests' = [requests EXCEPT ![work[p].request].status = "deleted"]
          /\ FinishInv(p, "ok", "delete_request")
       \/ /\ FinishInv(p, "database_error", "delete_request")
          /\ UNCHANGED <<inventories, requests>>
    /\ UNCHANGED <<inventory_transactions, labels, ops>>
    /\ UNCHANGED ledger_vars
    /\ UNCHANGED client_vars

\* fulfill_request, Steps 2-3 over the items of the locked request: the
\* rows as they end up, the debits to insert, the labels to mark shipped, or
\* the error that ends the request.
RECURSIVE FulfillItems(_, _)
FulfillItems(invs, items) ==
    IF items = <<>>
    THEN [error |-> "none", inventories |-> invs, debits |-> <<>>, shipped |-> {}]
    ELSE LET item == Head(items)
             id == item.inventory_id
             label_ids == {item.label_urls[k] : k \in 1..Len(item.label_urls)}
             failed(e) == [error |-> e, inventories |-> invs, debits |-> <<>>,
                           shipped |-> {}]
         IN IF id \notin DOMAIN invs THEN failed("not_found")
            ELSE IF invs[id].reserved_qty < item.quantity THEN failed("reserved_mismatch")
            ELSE IF invs[id].available_qty < item.quantity THEN failed("not_enough")
            ELSE IF \E l \in label_ids : ~HasLabel(l) THEN failed("label_not_found")
            ELSE LET left == invs[id].available_qty - item.quantity
                     rest == FulfillItems(
                                [invs EXCEPT ![id].available_qty = left,
                                             ![id].reserved_qty = @ - item.quantity,
                                             ![id].status = IF left = 0 THEN "inactive"
                                                            ELSE @],
                                Tail(items))
                 IN IF rest.error # "none" THEN rest
                    ELSE [rest EXCEPT
                            !.debits = <<[inventory_id |-> id, type |-> "debit",
                                          quantity |-> item.quantity,
                                          source |-> "outbound"]>> \o @,
                            !.shipped = @ \cup label_ids]

\* fulfill_request, Step 1: the request is read under FOR UPDATE, the
\* request waiting for the row, and checked.
fulfill_request(p, u, rid) ==
    /\ AdmitInv(p)
    /\ rid \in RequestIds => ~LockedByOther(RequestRow(rid), p)
    /\ IF rid \notin RequestIds \/ requests[rid].status = "deleted"
       THEN FinishInv(p, "not_found", "fulfill")
       ELSE IF requests[rid].status # "pending"
       THEN FinishInv(p, "not_pending", "fulfill")
       ELSE IF requests[rid].holder # u
       THEN FinishInv(p, "forbidden", "fulfill")
       ELSE GoOn(p, "fulfill_locked",
                 [NoWork EXCEPT !.kind = "fulfill", !.user = u, !.request = rid,
                                !.items = requests[rid].items, !.next = 1],
                 {RequestRow(rid)})
    /\ UNCHANGED <<inventories, requests, inventory_transactions, labels>>
    /\ UNCHANGED ledger_vars
    /\ UNCHANGED client_vars

\* The Label rows an item names.
ItemLabels(item) == {item.label_urls[k] : k \in 1..Len(item.label_urls)}

\* A fulfill_request whose failing item leaves the earlier items' changes
\* committed: what the handler would do without its single transaction.
fulfill_request_item_partial(p) ==
    /\ pc[p] = "fulfill_locked"
    /\ LET k == work[p].next
           items == work[p].items
           rid == work[p].request
           id == items[k].inventory_id
           held == {InventoryRow(id)} \cup
                   {LabelRow(l) : l \in {t \in ItemLabels(items[k]) : HasLabel(t)}}
           done == FulfillItems(inventories, SubSeq(items, 1, k))
           before == FulfillItems(inventories, SubSeq(items, 1, k - 1))
       IN \/ /\ \A row \in held : ~LockedByOther(row, p)
             /\ IF done.error # "none"
                THEN /\ FinishInv(p, done.error, "fulfill")
                     /\ inventories' = before.inventories
                     /\ inventory_transactions' =
                           inventory_transactions \o before.debits
                     /\ labels' = {IF l.tracking \in before.shipped
                                   THEN [l EXCEPT !.status = "shipped"] ELSE l :
                                   l \in labels}
                     /\ UNCHANGED requests
                ELSE IF k < Len(items)
                THEN /\ GoOn(p, "fulfill_locked", [work[p] EXCEPT !.next = k + 1], held)
                     /\ UNCHANGED <<inventories, requests, inventory_transactions,
                                    labels>>
                ELSE /\ inventories' = done.inventories
                     /\ inventory_transactions' = inventory_transactions \o done.debits
                     /\ labels' = {IF l.tracking \in done.shipped
                                   THEN [l EXCEPT !.status = "shipped"] ELSE l :
                                   l \in labels}
                     /\ requests' = [requests EXCEPT ![rid].status = "fulfilled"]
                     /\ FinishInv(p, "ok", "fulfill")
          \/ /\ FinishInv(p, "database_error", "fulfill")
             /\ UNCHANGED <<inventories, requests, inventory_transactions, labels>>
    /\ UNCHANGED ops
    /\ UNCHANGED ledger_vars
    /\ UNCHANGED client_vars

\* fulfill_request, Steps 2-3 for the next item: its inventory and labels
\* are read under FOR UPDATE, the request waiting for the rows, and checked;
\* what the earlier items changed is in the transaction, not committed.  An
\* exception leaves the session to be closed, which rolls back; after the
\* last item, Step 4 and the commit.
fulfill_request_item(p) ==
    /\ pc[p] = "fulfill_locked"
    /\ LET k == work[p].next
           items == work[p].items
           rid == work[p].request
           id == items[k].inventory_id
           held == {InventoryRow(id)} \cup
                   {LabelRow(l) : l \in {t \in ItemLabels(items[k]) : HasLabel(t)}}
           done == FulfillItems(inventories, SubSeq(items, 1, k))
       IN \/ /\ \A row \in held : ~LockedByOther(row, p)
             /\ IF done.error # "none"
                THEN /\ FinishInv(p, done.error, "fulfill")
                     /\ UNCHANGED <<inventories, requests, inventory_transactions,
                                    labels>>
                ELSE IF k < Len(items)
                THEN /\ GoOn(p, "fulfill_locked", [work[p] EXCEPT !.next = k + 1], held)
                     /\ UNCHANGED <<inventories, requests, inventory_transactions,
                                    labels>>
                ELSE /\ inventories' = done.inventories
                     /\ inventory_transactions' = inventory_transactions \o done.debits
                     /\ labels' = {IF l.tracking \in done.shipped
                                   THEN [l EXCEPT !.status = "shipped"] ELSE l :
                                   l \in labels}
                     /\ requests' = [requests EXCEPT ![rid].status = "fulfilled"]
                     /\ FinishInv(p, "ok", "fulfill")
          \/ /\ FinishInv(p, "database_error", "fulfill")
             /\ UNCHANGED <<inventories, requests, inventory_transactions, labels>>
    /\ UNCHANGED ops
    /\ UNCHANGED ledger_vars
    /\ UNCHANGED client_vars

\* delete_inventory: the row is read under FOR UPDATE, checked, soft-deleted
\* with a debit of what it holds, commit or rollback.
delete_inventory(p, u, id) ==
    /\ AdmitInv(p)
    /\ id \in InventoryIds => ~LockedByOther(InventoryRow(id), p)
    /\ IF id \notin InventoryIds
       THEN /\ FinishInv(p, "not_found", "delete_inventory")
            /\ UNCHANGED <<inventories, inventory_transactions>>
       ELSE IF inventories[id].owner # u
       THEN /\ FinishInv(p, "forbidden", "delete_inventory")
            /\ UNCHANGED <<inventories, inventory_transactions>>
       ELSE IF inventories[id].reserved_qty > 0
       THEN /\ FinishInv(p, "reserved", "delete_inventory")
            /\ UNCHANGED <<inventories, inventory_transactions>>
       ELSE IF inventories[id].status \notin {"active", "inactive"}
       THEN /\ FinishInv(p, "already_deleted", "delete_inventory")
            /\ UNCHANGED <<inventories, inventory_transactions>>
       ELSE \/ /\ inventories' = [inventories EXCEPT ![id].status = "soft_deleted"]
               /\ inventory_transactions' =
                     Append(inventory_transactions,
                            [inventory_id |-> id, type |-> "debit",
                             quantity |-> inventories[id].available_qty,
                             source |-> "deletion"])
               /\ FinishInv(p, "ok", "delete_inventory")
            \/ /\ FinishInv(p, "database_error", "delete_inventory")
               /\ UNCHANGED <<inventories, inventory_transactions>>
    /\ UNCHANGED <<requests, labels>>
    /\ UNCHANGED ledger_vars
    /\ UNCHANGED client_vars

NextInv ==
    \E p \in Procs :
        \/ \E u \in Users, prod \in Products, qty \in AddQuantities :
              add_inventory(p, u, prod, qty)
        \/ add_inventory_insert(p)
        \/ \E u \in Users, items \in ItemLists : create_fulfillment_request_select(p, u, items)
        \/ create_fulfillment_request_commit(p)
        \/ \E u \in Users, rid \in 1..(Len(requests) + 1) :
              delete_fulfillment_request_select(p, u, rid)
        \/ delete_fulfillment_request_lock(p)
        \/ delete_fulfillment_request_commit(p)
        \/ \E u \in Users, rid \in 1..(Len(requests) + 1) : fulfill_request(p, u, rid)
        \/ fulfill_request_item(p)
        \/ \E u \in Users, id \in 1..(Len(inventories) + 1) : delete_inventory(p, u, id)

SpecInv == InitInv /\ [][NextInv]_vars

\* ======================================================== labels in shipment
\* cancelLabel and fulfill_request over the same Label row.  The start is the
\* warehouse after the owner's create_fulfillment_request of 4 units of
\* inventory 1 naming label 1: the request pending, the units reserved.
InitShip ==
    /\ balance = [InitBalance EXCEPT ![Owner] = 400]
    /\ txlog = <<[user |-> Owner, amount |-> 1000, new_balance |-> 1000,
                  type |-> "adjustment", note |-> 0],
                 [user |-> Owner, amount |-> 600, new_balance |-> 400,
                  type |-> "usage", note |-> 1]>>
    /\ labels = {[tracking |-> 1, user |-> Owner, cost |-> 600, status |-> "new"]}
    /\ orders = [o \in OrderNumbers |-> "new"]
    /\ payments = [i \in Intents |-> [status |-> "absent", user |-> "none", amount |-> 0]]
    /\ sold = <<[user |-> Owner, price |-> 600]>>
    /\ locks = {}
    /\ pc = [p \in Procs |-> "idle"]
    /\ req = [p \in Procs |-> NoReq]
    /\ session = [p \in Procs |-> EmptySession]
    /\ result = [p \in Procs |-> "none"]
    /\ ops = 0
    /\ inventories = <<[product |-> "a", owner |-> Owner, holder |-> Holder,
                        available_qty |-> 10, reserved_qty |-> 4,
                        status |-> "active"]>>
    /\ requests = <<[owner |-> Owner, holder |-> Holder, status |-> "pending",
                     items |-> <<[inventory_id |-> 1, quantity |-> 4,
                                  label_urls |-> <<1>>]>>]>>
    /\ inventory_transactions =
          <<[inventory_id |-> 1, type |-> "credit", quantity |-> 10,
             source |-> "creation"]>>
    /\ work = [p \in Procs |-> NoWork]
    /\ carrier = NoCall
    /\ money = NoMoney

NextShip ==
    \E p \in Procs :
        \/ \E u \in Users, c \in Routed, t \in 1..Len(sold) : cancel_label_carrier(p, u, c, t)
        \/ cancel_label_lock_label(p)
        \/ cancel_label_lock_user(p)
        \/ cancel_label_commit(p)
        \/ \E u \in Users, rid \in 1..(Len(requests) + 1) : fulfill_request(p, u, rid)
        \/ fulfill_request_item(p)

SpecShip == InitShip /\ [][NextShip]_vars

\* ========================================================== carrier clients
\* FedExService and USPSService: one call of a client method, the answers
\* the carrier gives to its attempts, and what the caller gets.
CarrierOps == {"fedex_get_rates", "fedex_buy_label", "fedex_cancel_label",
               "usps_get_rates", "usps_buy_label", "usps_cancel_label"}

\* What an attempt meets: the endpoint answers 2xx, 4xx or 5xx, the request
\* times out, or the token endpoint refuses the credentials (4xx).
Responses == {"ok", "4xx", "5xx", "timeout", "auth_4xx"}

stop_after_attempt == 3

\* The methods under @retry(...).
Retried(op) == op \in {"fedex_get_rates", "fedex_buy_label", "fedex_cancel_label"}

\* retry_if_exception_type((httpx.HTTPError, ExternalServiceServerError,
\* httpx.ReadTimeout)), as classes an attempt can let out.
retry_if_exception_type == {"HTTPStatusError", "ExternalServiceServerError"}

\* The exception one attempt lets out of the method body, "none" on success.
\* raise_for_status on the token answer is outside every try block; a
\* timeout is an httpx.RequestError, rewrapped everywhere; FedEx buy_label
\* and cancel_label also rewrap what they raise themselves (except Exception).
Raises(op, response) ==
    IF response = "ok" THEN "none"
    ELSE IF response = "auth_4xx" THEN "HTTPStatusError"
    ELSE IF response = "timeout" THEN "ExternalServiceException"
    ELSE IF op \in {"fedex_buy_label", "fedex_cancel_label"}
    THEN "ExternalServiceException"
    ELSE IF response = "4xx" THEN "ExternalServiceClientError"
    ELSE "ExternalServiceServerError"

\* A client method is called.
carrier_call(op) ==
    /\ carrier.state # "calling"
    /\ carrier' = [NoCall EXCEPT !.op = op, !.state = "calling"]
    /\ UNCHANGED <<ledger_vars, warehouse_vars, labels, locks, pc, result, ops, money>>

\* One attempt of the call: it returns, or raises; tenacity calls again when
\* the exception is one it retries on and attempts are left, and reraises
\* otherwise.
carrier_attempt(response) ==
    /\ carrier.state = "calling"
    /\ LET e == Raises(carrier.op, response)
           n == carrier.attempts + 1
           after == [carrier EXCEPT !.attempts = n,
                                    !.responses = Append(@, response)]
       IN carrier' =
             IF e = "none" THEN [after EXCEPT !.state = "returned"]
             ELSE IF /\ Retried(carrier.op)
                     /\ e \in retry_if_exception_type
                     /\ n < stop_after_attempt
             THEN after
             ELSE [after EXCEPT !.state = "raised", !.raised = e]
    /\ UNCHANGED <<ledger_vars, warehouse_vars, labels, locks, pc, result, ops, money>>

\* The errors of a USPS response body.  status is <<>> when the error has
\* none of the status keys; code is a JSON string (its characters), a JSON
\* number, or absent.
Text(chars) == [kind |-> "str", chars |-> chars]
NoCode == [kind |-> "none", chars |-> <<>>]
NumberCode == [kind |-> "int", chars |-> <<"5", "0", "0">>]
ErrorCodes == {NoCode, NumberCode, Text(<<"A", "P", "I">>), Text(<<"s", "v", "c">>),
               Text(<<"S", "V">>), Text(<<"S", "e", "r", "v", "e", "r">>)}
ErrorStatuses == {<<>>, <<400>>, <<500>>}
ErrorMessages == {"", "Bad request"}
UspsErrors == [status : ErrorStatuses, code : ErrorCodes, message : ErrorMessages]
ErrorLists == UNION {[1..n -> UspsErrors] : n \in 1..MaxErrors}

Lower == <<"a", "b", "c", "d", "e", "f", "g", "h", "i", "j", "k", "l", "m",
           "n", "o", "p", "q", "r", "s", "t", "u", "v", "w", "x", "y", "z">>
Capital == <<"A", "B", "C", "D", "E", "F", "G", "H", "I", "J", "K", "L", "M",
             "N", "O", "P", "Q", "R", "S", "T", "U", "V", "W", "X", "Y", "Z">>

\* str.upper()
upper(chars) ==
    [i \in DOMAIN chars |->
        IF \E k \in DOMAIN Lower : Lower[k] = chars[i]
        THEN Capital[CHOOSE k \in DOMAIN Lower : Lower[k] = chars[i]]
        ELSE chars[i]]

\* str.startswith(prefix)
startswith(chars, prefix) ==
    /\ Len(chars) >= Len(prefix)
    /\ SubSeq(chars, 1, Len(prefix)) = prefix

\* USPSService._is_server_error: "True", "False", or the AttributeError of
\* .upper() on a code that is not a string.
is_server_error(error) ==
    IF error.status # <<>>
    THEN IF error.status[1] >= 500 THEN "True" ELSE "False"
    ELSE IF error.code.kind = "int" THEN "AttributeError"
    ELSE IF \/ startswith(upper(error.code.chars), <<"S", "V", "C">>)
            \/ startswith(upper(error.code.chars), <<"S", "E", "R", "V", "E", "R">>)
    THEN "True" ELSE "False"

\* any(self._is_server_error(err) for err in errors), from the i-th error on
RECURSIVE any_is_server_error(_, _)
any_is_server_error(errors, i) ==
    IF i > Len(errors) THEN "False"
    ELSE IF is_server_error(errors[i]) = "False" THEN any_is_server_error(errors, i + 1)
    ELSE is_server_error(errors[i])

\* "; ".join(self._format_usps_error(err) for err in errors): the messages
\* the text holds, one for each error that has one.
format_usps_errors(errors) ==
    [i \in DOMAIN SelectSeq(errors, LAMBDA e : e.message # "") |->
        SelectSeq(errors, LAMBDA e : e.message # "")[i].message]

\* USPSService.buy_label when the endpoint answers 2xx with errors in the
\* body: _make_request returns the body and buy_label classifies its errors.
usps_buy_label_errors(errors) ==
    /\ carrier.state = "calling"
    /\ carrier.op = "usps_buy_label"
    /\ carrier' = [carrier EXCEPT
          !.attempts = @ + 1,
          !.responses = Append(@, "ok_errors"),
          !.errors = errors,
          !.state = "raised",
          !.message = IF any_is_server_error(errors, 1) = "AttributeError"
                      THEN <<>> ELSE format_usps_errors(errors),
          !.raised = CASE any_is_server_error(errors, 1) = "True"
                            -> "ExternalServiceServerError"
                       [] any_is_server_error(errors, 1) = "False"
                            -> "ExternalServiceClientError"
                       [] OTHER -> "AttributeError"]
    /\ UNCHANGED <<ledger_vars, warehouse_vars, labels, locks, pc, result, ops, money>>

NextCarrier ==
    \/ \E op \in CarrierOps : carrier_call(op)
    \/ \E response \in Responses : carrier_attempt(response)
    \/ \E errors \in ErrorLists : usps_buy_label_errors(errors)

SpecCarrier == Init /\ [][NextCarrier]_vars

\* ==================================================================== Money
\* utils/money.py over decimal.Decimal.  A Decimal is its coefficient and
\* the number of fraction digits it carries: coef / 10^scale.
Decimal(c, s) == [coef |-> c, scale |-> s]

RECURSIVE Pow10(_)
Pow10(n) == IF n = 0 THEN 1 ELSE 10 * Pow10(n - 1)

\* Decimal.quantize(Decimal('0.01') or Decimal('1'), rounding=ROUND_HALF_UP):
\* the value at s fraction digits.
quantize(x, s) ==
    IF x.scale <= s THEN Decimal(x.coef * Pow10(s - x.scale), s)
    ELSE Decimal(RoundHalfUp(x.coef, Pow10(x.scale - s)), s)

\* Decimal(cents) / Decimal('100'): the exact quotient, with the fewest
\* fraction digits that hold it.
DecimalOverHundred(cents) ==
    IF cents % 100 = 0 THEN Decimal(cents \div 100, 0)
    ELSE IF cents % 10 = 0 THEN Decimal(cents \div 10, 1)
    ELSE Decimal(cents, 2)

\* A Money that keeps whole units only.
MoneyWholeUnits(amount) == quantize(amount, 0)

\* Money.__init__: the amount at two fraction digits.
Money(amount) == quantize(amount, 2)

from_cents(cents) == Money(DecimalOverHundred(cents))

\* int((amount * Decimal('100')).to_integral_value(rounding=ROUND_HALF_UP))
to_cents(m) == quantize(Decimal(m.coef * 100, m.scale), 0).coef

Cents == (0 - MaxCents)..MaxCents
Scales == 0..3              \* fraction digits of the amounts handed to Money

\* Money.from_cents(c).to_cents()
from_cents_to_cents(c) ==
    /\ money' = [NoMoney EXCEPT !.op = "from_cents", !.input = c,
                                !.amount = from_cents(c),
                                !.output = to_cents(from_cents(c))]
    /\ UNCHANGED <<ledger_vars, warehouse_vars, labels, locks, pc, result, ops, carrier>>

\* Money.from_cents(Money(x).to_cents())
to_cents_from_cents(c, s) ==
    /\ money' = [NoMoney EXCEPT !.op = "to_cents", !.input = c, !.scale = s,
                                !.output = to_cents(Money(Decimal(c, s))),
                                !.amount = from_cents(to_cents(Money(Decimal(c, s))))]
    /\ UNCHANGED <<ledger_vars, warehouse_vars, labels, locks, pc, result, ops, carrier>>

\* users.multiplier, in hundredths: the column's CHECK and the admin service
\* keep it within 1.00 .. 1.99.
Multipliers == {100, 125, 199}
\* factor: int | Decimal | float of Money.__mul__, in hundredths.
Factors == Multipliers \cup {-150}

\* LabelService._apply_multiplier_to_rates(init_value, user.multiplier)
apply_multiplier(a, f) ==
    /\ money' = [NoMoney EXCEPT !.op = "apply_multiplier", !.input = a, !.factor = f,
                                !.raised = (a < 0),
                                !.output = IF a < 0 THEN 0
                                           ELSE apply_multiplier_to_rates(a, f)]
    /\ UNCHANGED <<ledger_vars, warehouse_vars, labels, locks, pc, result, ops, carrier>>

\* Money.__mul__: Money(self.amount * Decimal(str(factor))), never raising.
money_mul(a, f) ==
    /\ money' = [NoMoney EXCEPT !.op = "mul", !.input = a, !.factor = f,
                                !.raised = FALSE,
                                !.amount = Money(Decimal(Money(Decimal(a, 2)).coef * f, 4)),
                                !.output = Money(Decimal(Money(Decimal(a, 2)).coef * f, 4)).coef]
    /\ UNCHANGED <<ledger_vars, warehouse_vars, labels, locks, pc, result, ops, carrier>>

\* decimal's ROUND_DOWN of n / d to an integer, d > 0: towards zero.
RoundDown(n, d) == IF n < 0 THEN 0 - (Abs(n) \div d) ELSE n \div d

\* (x * 100).to_integral_value(rounding=ROUND_DOWN)
to_integral_value_down(x) ==
    IF x.scale = 0 THEN x.coef * 100
    ELSE RoundDown(x.coef * 100, Pow10(x.scale))

\* PaymentRequest.amount: Decimal, Field(ge=25, lt=1000), here the amounts
\* from 25 on with 0 to 3 fraction digits.
PaymentRequestAmounts ==
    {Decimal(25 * Pow10(s) + k, s) : s \in Scales, k \in 0..MaxCents}

\* create_payment_intent and _handle_successful_payment, the amounts: the
\* cents sent to the gateway, the cents the Payment.amount setter stores,
\* and the cents the handler adds to the balance from Payment.amount.
payment_amounts(x) ==
    /\ money' = [NoMoney EXCEPT !.op = "payment", !.input = x.coef, !.scale = x.scale,
                                !.gateway = to_integral_value_down(x),
                                !.stored = to_cents(Money(x)),
                                !.amount = from_cents(to_cents(Money(x))),
                                !.credited = to_cents(from_cents(to_cents(Money(x))))]
    /\ UNCHANGED <<ledger_vars, warehouse_vars, labels, locks, pc, result, ops, carrier>>

NextMoney ==
    \/ \E x \in PaymentRequestAmounts : payment_amounts(x)
    \/ \E c \in Cents : from_cents_to_cents(c)
    \/ \E c \in Cents, s \in Scales : to_cents_from_cents(c, s)
    \/ \E a \in Cents, f \in Multipliers : apply_multiplier(a, f)
    \/ \E a \in Cents, f \in Factors : money_mul(a, f)

SpecMoney == Init /\ [][NextMoney]_vars

\* ============================================================ ledger claims
\* The committed rows of the ledger.
Database == <<balance, txlog, labels, orders, payments>>

UserTransactions(u) == SelectSeq(txlog, LAMBDA t : t.user = u)

\* The amount a Transaction row carries, as stored.
StoredAmount(t) == t.amount
\* The change of balance the operation that wrote the row applied.
AppliedAmount(t) == IF t.type = "usage" THEN 0 - t.amount ELSE t.amount

RECURSIVE StoredChain(_, _)
StoredChain(s, prev) ==
    \/ s = <<>>
    \/ /\ Head(s).new_balance = prev + StoredAmount(Head(s))
       /\ StoredChain(Tail(s), Head(s).new_balance)

RECURSIVE AppliedChain(_, _)
AppliedChain(s, prev) ==
    \/ s = <<>>
    \/ /\ Head(s).new_balance = prev + AppliedAmount(Head(s))
       /\ AppliedChain(Tail(s), Head(s).new_balance)

RECURSIVE SumStored(_)
SumStored(s) == IF s = <<>> THEN 0 ELSE StoredAmount(Head(s)) + SumStored(Tail(s))

RECURSIVE SumApplied(_)
SumApplied(s) == IF s = <<>> THEN 0 ELSE AppliedAmount(Head(s)) + SumApplied(Tail(s))

\* C1: in every committed state every user's balance is at least zero.
C1_BalanceNeverNegative == \A u \in Users : balance[u] >= 0

\* C2: a user's balance is the sum of the signed amounts of the user's
\* Transaction rows, every row's new_balance is the previous balance plus
\* the row's amount, and a usage row's amount is negative.
C2_BalanceIsSumOfAmounts ==
    \A u \in Users :
        /\ balance[u] = SumStored(UserTransactions(u))
        /\ StoredChain(UserTransactions(u), 0)
        /\ \A k \in 1..Len(txlog) : txlog[k].type = "usage" => txlog[k].amount < 0

\* C3: no update of a balance is lost: whatever the interleaving, every
\* committed change is applied to the balance the previous commit left, so
\* the balance is the initial zero plus all the changes applied.
C3_NoLostUpdate ==
    \A u \in Users :
        /\ AppliedChain(UserTransactions(u), 0)
        /\ balance[u] = SumApplied(UserTransactions(u))

\* C4: of two buyLabel requests of one user that run concurrently, each
\* charge covered by the balance they saw and the two together not, at most
\* one commits its debit.
C4_OneOfTwoBuysCommits ==
    \A p \in Procs :
        ~ /\ pc[p] = "done" /\ req[p].kind = "buy" /\ result[p] = "ok"
          /\ req[p].raced > 0
          /\ req[p].amount <= req[p].seen
          /\ req[p].raced <= req[p].seen
          /\ req[p].amount + req[p].raced > req[p].seen

Deposits(i) == {k \in 1..Len(txlog) : txlog[k].type = "deposit" /\ txlog[k].note = i}

\* C7: a Payment leaves initiated once: a payment that is success or failure
\* never changes again, and no payment has more than one deposit Transaction.
C7_PaymentSettlesOnce ==
    [][\A i \in Intents :
          /\ payments[i].status \in {"success", "failure"} => payments'[i] = payments[i]
          /\ Cardinality(Deposits(i))' <= 1]_vars

\* A step of request p: its position, its variables (the history field
\* raced apart, which other requests' commits write) or its outcome move.
StepOf(p) ==
    <<pc[p], [req[p] EXCEPT !.raced = 0], result[p]>>'
        # <<pc[p], [req[p] EXCEPT !.raced = 0], result[p]>>

Held(t) == \E p \in Procs : /\ pc[p] \in {"buy_prepared", "buy_locked"}
                            /\ \E k \in 1..Len(req[p].labels) : req[p].labels[k].tracking = t

\* C9: once the buyLabel request that bought it has ended, every piece a
\* carrier sold has a committed Label row and a usage Transaction of the
\* label's cost_estimate.
C9_SoldLabelsAreCommitted ==
    \A t \in 1..Len(sold) :
        ~Held(t) =>
            /\ HasLabel(t)
            /\ \E k \in 1..Len(txlog) : /\ txlog[k].type = "usage"
                                        /\ txlog[k].note = t
                                        /\ txlog[k].user = Label(t).user
                                        /\ txlog[k].amount = Label(t).cost

\* What one committed operation of request p writes, all of it.
WriteSet(p) ==
    LET k == req'[p].kind
        n == Len(txlog') - Len(txlog)
        new == SubSeq(txlog', Len(txlog) + 1, Len(txlog'))
        u == req[p].user
        OnlyBalanceOf(v) == \A w \in Users \ {v} : balance'[w] = balance[w]
    IN /\ n >= 0 /\ SubSeq(txlog', 1, Len(txlog)) = txlog
       /\ CASE k = "buy" ->
                 LET ls == req[p].labels
                 IN /\ n = Len(ls)
                    /\ \A j \in 1..n : /\ new[j].type = "usage" /\ new[j].user = u
                                       /\ new[j].note = ls[j].tracking
                                       /\ new[j].amount = ls[j].cost
                    /\ labels' = labels \cup
                          {[tracking |-> ls[j].tracking, user |-> u,
                            cost |-> ls[j].cost, status |-> "new"] : j \in 1..n}
                    /\ balance'[u] = new[n].new_balance /\ OnlyBalanceOf(u)
                    /\ \A o \in OrderNumbers :
                          orders'[o] = IF o = req[p].order THEN "shipped" ELSE orders[o]
                    /\ payments' = payments
            [] k = "cancel" ->
                 /\ n = 1 /\ new[1].type = "refund" /\ new[1].note = req[p].tracking
                 /\ new[1].user = u
                 /\ \E l \in labels :
                       /\ l.tracking = req[p].tracking
                       /\ labels' = (labels \ {l}) \cup {[l EXCEPT !.status = "cancelled"]}
                 /\ balance'[u] = new[1].new_balance /\ OnlyBalanceOf(u)
                 /\ orders' = orders /\ payments' = payments
            [] k = "webhook_succeeded" ->
                 /\ n = 1 /\ new[1].type = "deposit" /\ new[1].note = req[p].intent
                 /\ new[1].user = u
                 /\ payments' = [payments EXCEPT ![req[p].intent].status = "success"]
                 /\ balance'[u] = new[1].new_balance /\ OnlyBalanceOf(u)
                 /\ labels' = labels /\ orders' = orders
            [] k = "adjust" ->
                 /\ n = 1 /\ new[1].type = "adjustment" /\ new[1].user = u
                 /\ balance'[u] = new[1].new_balance /\ OnlyBalanceOf(u)
                 /\ labels' = labels /\ orders' = orders /\ payments' = payments
            [] k \in {"intent", "webhook_failed"} ->
                 /\ n = 0 /\ balance' = balance /\ labels' = labels /\ orders' = orders
            [] OTHER -> FALSE

\* C10: a ledger operation is all-or-nothing: a step of a request either
\* leaves the committed rows as they were, or the request ends successfully
\* and the step commits the operation's whole write set (balance,
\* Transactions, Label / Order / Payment status); a request that ends with an
\* error has changed nothing.
C10_AllOrNothing ==
    [][\A p \in Procs :
          StepOf(p) =>
             \/ Database' = Database
             \/ /\ pc'[p] = "done" /\ result'[p] = "ok"
                /\ WriteSet(p)]_vars

C10_Witness ==
    /\ \E p \in Procs : /\ pc[p] = "done" /\ req[p].kind = "buy"
                        /\ result[p] = "database_error"
    /\ \E p \in Procs : /\ pc[p] = "done" /\ req[p].kind = "buy"
                        /\ result[p] = "ok" /\ req[p].amount = 1200
    /\ Cardinality(labels) = 2
    /\ Len(txlog) = 3

\* ------------------------------------------------- ledger claims, continued
\* The step in which request p's carrier call (purchase or cancel) fails.
CarrierCallFails(p) ==
    /\ StepOf(p) /\ pc'[p] = "done"
    /\ \/ pc[p] = "buy_rated" /\ sold' = sold
       \/ req'[p].kind = "cancel" /\ pc[p] \in {"idle", "done"} /\ ops' # ops

C12_InsufficientBalancePayload ==
    [][\A p \in Procs :
          (StepOf(p) /\ pc'[p] = "done" /\ req'[p].kind = "buy"
           /\ result'[p] = "insufficient_balance")
          => /\ Database' = Database /\ sold' = sold
             /\ req'[p].seen = balance[req'[p].user]
             /\ req'[p].amount =
                   apply_multiplier_to_rates(req'[p].quote, multiplier(req'[p].user))
             /\ req'[p].seen < req'[p].amount]_vars

\* C13: a successful buyLabel commits, per piece the carrier returned, one
\* Label (status new, cost_estimate the multiplier-applied price of the
\* piece) and one usage Transaction of amount -cost_estimate, and the balance
\* ends at the balance before minus the sum of the cost_estimates.
C13_SuccessfulBuy ==
    [][\A p \in Procs :
          (StepOf(p) /\ pc[p] = "buy_locked" /\ result'[p] = "ok")
          => LET ls == req[p].labels
                 n == Len(ls)
                 u == req[p].user
                 new == SubSeq(txlog', Len(txlog) + 1, Len(txlog'))
                 cost(j) == apply_multiplier_to_rates(sold[ls[j].tracking].price,
                                                      multiplier(u))
             IN /\ labels' = labels \cup
                      {[tracking |-> ls[j].tracking, user |-> u, cost |-> cost(j),
                        status |-> "new"] : j \in 1..n}
                /\ Cardinality(labels') = Cardinality(labels) + n
                /\ Len(new) = n
                /\ \A j \in 1..n : /\ new[j].type = "usage" /\ new[j].user = u
                                   /\ new[j].amount = 0 - cost(j)
                /\ balance'[u] = balance[u] - SumSeq([j \in 1..n |-> cost(j)])
                /\ new[n].new_balance = balance'[u]]_vars

\* ========================================================= warehouse claims
RECURSIVE QuantityFor(_, _)
QuantityFor(items, id) ==
    IF items = <<>> THEN 0
    ELSE (IF Head(items).inventory_id = id THEN Head(items).quantity ELSE 0)
         + QuantityFor(Tail(items), id)

RECURSIVE PendingFrom(_, _)
PendingFrom(k, id) ==
    IF k > Len(requests) THEN 0
    ELSE (IF requests[k].status = "pending" THEN QuantityFor(requests[k].items, id)
          ELSE 0)
         + PendingFrom(k + 1, id)

\* The units of inventory id promised to pending fulfillment requests.
PendingQty(id) == PendingFrom(1, id)

\* C5: reservations never oversell, however they interleave: the units of
\* an inventory reserved by the requests that succeeded and are pending never
\* exceed its available_qty (of two concurrent requests for 6 of 10 units
\* only one succeeds).
C5_NeverOversell ==
    \A id \in InventoryIds : PendingQty(id) <= inventories[id].available_qty

\* C6: for every inventory row, 0 <= reserved_qty <= available_qty after any
\* sequence of add_inventory, create / delete / fulfill of fulfillment
\* requests and delete_inventory.
C6_ReservedWithinAvailable ==
    \A id \in InventoryIds :
        /\ 0 <= inventories[id].reserved_qty
        /\ inventories[id].reserved_qty <= inventories[id].available_qty

\* ---------------------------------------------- warehouse claims, continued
\* The committed warehouse rows and the labels.
Warehouse == <<inventories, requests, inventory_transactions, labels>>

\* C14: when fulfill_request fails at an item (a label, an inventory or a
\* quantity is missing), nothing of the request is committed: no
\* inventory's available_qty or reserved_qty, no InventoryTransaction, no
\* label status changes, and the request is still pending.
C14_FulfillIsAtomic ==
    [][\A p \in Procs :
          (pc[p] = "fulfill_locked" /\ pc'[p] = "done" /\ result'[p] # "ok")
          => /\ Warehouse' = Warehouse
             /\ requests'[work[p].request].status = "pending"]_vars

\* A fulfill_request has failed on the missing label of the second item of
\* a pending request whose first item passed every check.
C14_Witness ==
    \E p \in Procs, rid \in RequestIds :
        /\ pc[p] = "done" /\ work[p].kind = "fulfill"
        /\ result[p] = "label_not_found"
        /\ requests[rid].status = "pending"
        /\ Len(requests[rid].items) = 2
        /\ FulfillItems(inventories, SubSeq(requests[rid].items, 1, 1)).error = "none"
        /\ FulfillItems(inventories, requests[rid].items).error = "label_not_found"
        /\ \A l \in labels : l.status = "new"

\* C15: a FulfillmentRequest is created pending and goes from pending to
\* fulfilled or from pending to deleted, and nowhere else: a fulfilled
\* request is never deleted, fulfilled again or pending again, a deleted
\* one never comes back, and no status but these three is ever written.
C15_RequestStateMachine ==
    [][/\ Len(requests') >= Len(requests)
       /\ \A rid \in 1..Len(requests') :
             IF rid \notin RequestIds
             THEN requests'[rid].status = "pending"
             ELSE \/ requests'[rid].status = requests[rid].status
                  \/ /\ requests[rid].status = "pending"
                     /\ requests'[rid].status \in {"fulfilled", "deleted"}]_vars

\* The step is one of request p.
StepOfInv(p) == pc'[p] # pc[p] \/ work'[p] # work[p] \/ result'[p] # result[p]

\* C16: a create_fulfillment_request that ends in an error of a check or of
\* persistence (an item that does not fit, an inactive, foreign or missing
\* inventory, a failed commit) leaves every committed reserved_qty as it was
\* and persists no request and no item, also when earlier items of the
\* request had passed their check.
C16_CreateIsAllOrNothing ==
    [][\A p \in Procs :
          (/\ StepOfInv(p) /\ pc'[p] = "done"
           /\ work'[p].kind = "create"
           /\ result'[p] \notin {"ok", "notification_failed"})
          => Warehouse' = Warehouse]_vars

\* A create_fulfillment_request of two items has failed on its second item
\* after the first one fitted; nothing is reserved and no request exists.
C16_Witness ==
    \E p \in Procs :
        /\ pc[p] = "done" /\ work[p].kind = "create" /\ result[p] = "not_enough"
        /\ work[p].next = 2
        /\ \A id \in InventoryIds : inventories[id].reserved_qty = 0
        /\ requests = <<>>

\* The rows the next statement of request p has to lock.
WaitsFor(p) ==
    IF pc[p] \in {"fulfill_locked", "delete_selected"}
    THEN {InventoryRow(work[p].items[work[p].next].inventory_id)}
    ELSE IF pc[p] = "delete_locked" THEN {RequestRow(work[p].request)}
    ELSE IF pc[p] = "create_reserved"
    THEN {InventoryRow(id) : id \in DOMAIN work[p].reserved}
    ELSE {}

\* Two requests each wait for a row lock the other holds.
Deadlock ==
    \E p \in Procs, q \in Procs :
        /\ p # q
        /\ \E row \in WaitsFor(p) : <<row, q>> \in locks
        /\ \E row \in WaitsFor(q) : <<row, p>> \in locks

\* C17: the workflows take their row locks in one global order, so no
\* interleaving of them reaches a state in which two of them each wait for
\* a row lock the other holds.
C17_NoDeadlock == ~Deadlock

\* C18: in every committed state each (product, owner, holder) tuple has at
\* most one inventory whose status is not soft_deleted, also after two
\* add_inventory calls for a tuple without a row have run concurrently.
C18_OneLiveInventoryPerTuple ==
    \A prod \in Products : Cardinality(Live(prod)) <= 1

\* C19: in every committed state a soft_deleted inventory has reserved_qty
\* 0, also after a delete_inventory has raced with a
\* create_fulfillment_request on the inventory.
C19_SoftDeletedHasNoReservation ==
    \A id \in InventoryIds :
        inventories[id].status = "soft_deleted" => inventories[id].reserved_qty = 0

\* The InventoryTransactions of an inventory, credits counted up and debits
\* counted down.
RECURSIVE NetQuantity(_, _)
NetQuantity(txs, id) ==
    IF txs = <<>> THEN 0
    ELSE NetQuantity(Tail(txs), id) +
         (IF Head(txs).inventory_id # id THEN 0
          ELSE IF Head(txs).type = "credit" THEN Head(txs).quantity
          ELSE 0 - Head(txs).quantity)

\* C20: in every committed state the available_qty of every inventory is
\* the sum of its credit InventoryTransactions minus the sum of its debit
\* InventoryTransactions.
C20_AvailableIsSumOfTransactions ==
    \A id \in InventoryIds :
        inventories[id].available_qty = NetQuantity(inventory_transactions, id)

\* ------------------------------------------------------------ client claims
\* The answer the last attempt of the call met.
LastResponse == carrier.responses[Len(carrier.responses)]

\* C21: a carrier call that fails with a server-class failure (5xx or a
\* timeout) is attempted again until it succeeds or three attempts are
\* made; one that fails with a client-class failure (4xx) is surfaced at
\* once; no call is attempted more than three times.
C21_RetryPolicy ==
    /\ carrier.attempts <= 3
    /\ (carrier.state = "raised" /\ LastResponse \in {"5xx", "timeout"})
          => carrier.attempts = 3
    /\ (carrier.state = "calling" /\ carrier.attempts > 0)
          => LastResponse \in {"5xx", "timeout"}

\* C22: whenever create_fulfillment_request has committed the request and
\* its reservations, the caller gets the success result, whatever happens
\* while the holder's notification is prepared or scheduled.
C22_NotificationNeverFailsCreate ==
    [][\A p \in Procs :
          (pc[p] = "create_reserved" /\ pc'[p] = "done"
           /\ Len(requests') = Len(requests) + 1)
          => result'[p] = "ok"]_vars

\* C23: Money goes through integer cents and back without loss, negative
\* values included: Money.from_cents(c).to_cents() is c, and
\* Money.from_cents(Money(x).to_cents()) has the amount of Money(x).
C23_MoneyRoundTrip ==
    /\ money.op = "from_cents" => money.output = money.input
    /\ money.op = "to_cents"
          => money.amount = Money(Decimal(money.input, money.scale))

\* A negative number of cents that is not a multiple of ten has made the
\* round trip.
C23_Witness ==
    /\ money.op = "from_cents" /\ money.input < 0 /\ money.input % 10 # 0
    /\ money.amount = Decimal(money.input, 2)
    /\ money.output = money.input


\* C24: applying the multiplier returns amount x multiplier rounded half-up
\* to whole cents, and signals NegativeAmount whenever the amount or the
\* factor is negative, so no negative charge comes out of this path.
C24_MultiplyRejectsNegatives ==
    money.op \in {"apply_multiplier", "mul"} =>
        /\ money.raised <=> (money.input < 0 \/ money.factor < 0)
        /\ ~money.raised =>
              /\ money.output >= 0
              /\ 2 * Abs(100 * money.output - money.input * money.factor) <= 100
              /\ 2 * Abs(100 * money.output - money.input * money.factor) = 100
                    => Abs(100 * money.output) > Abs(money.input * money.factor)

\* What the claim calls a server-class error: its status is 500 or more, or
\* it has no status and its code, as text, starts with SVC or SERVER.
ServerClass(error) ==
    IF error.status # <<>> THEN error.status[1] >= 500
    ELSE /\ error.code.kind = "str"
         /\ \/ startswith(upper(error.code.chars), <<"S", "V", "C">>)
            \/ startswith(upper(error.code.chars), <<"S", "E", "R", "V", "E", "R">>)

\* C25: USPSService.buy_label, given a response body that bears errors,
\* returns no label and raises ExternalServiceServerError when at least one
\* error is server-class and ExternalServiceClientError otherwise, with the
\* message of every error in the exception.
C25_USPSBuyLabelClassifies ==
    (carrier.op = "usps_buy_label" /\ carrier.errors # <<>>) =>
        /\ carrier.state = "raised"
        /\ carrier.raised =
              IF \E i \in DOMAIN carrier.errors : ServerClass(carrier.errors[i])
              THEN "ExternalServiceServerError" ELSE "ExternalServiceClientError"
        /\ \A i \in DOMAIN carrier.errors :
              carrier.errors[i].message # ""
                 => \E k \in DOMAIN carrier.message :
                       carrier.message[k] = carrier.errors[i].message

\* ------------------------------------------------- shipment and refund claims
\* The refund Transactions written for the label of tracking number t.
Refunds(t) == {i \in DOMAIN txlog : txlog[i].type = "refund" /\ txlog[i].note = t}

RECURSIVE SumAmounts(_)
SumAmounts(is) ==
    IF is = {} THEN 0
    ELSE LET i == CHOOSE j \in is : TRUE IN txlog[i].amount + SumAmounts(is \ {i})

\* C26: for every label at most one refund Transaction is ever inserted and
\* the total refunded never exceeds the label's cost_estimate, also when a
\* cancelled label is named by a fulfillment item and the request fulfilled.
C26_AtMostOneRefundPerLabel ==
    \A l \in labels :
        /\ Cardinality(Refunds(l.tracking)) <= 1
        /\ SumAmounts(Refunds(l.tracking)) <= l.cost


\* C27: a refund is credited to the user who was debited for the label:
\* the refund Transaction a cancelLabel commits carries the label's user_id,
\* and a cancelLabel by a user who does not own the label changes neither
\* the label nor any balance.
C27_RefundGoesToLabelOwner ==
    [][\A p \in Procs :
          (pc[p] = "cancel_locked" /\ pc'[p] = "done") =>
             IF req[p].user = Label(req[p].tracking).user
             THEN \A i \in DOMAIN txlog' \ DOMAIN txlog :
                     txlog'[i].user = Label(req[p].tracking).user
             ELSE UNCHANGED <<labels, balance>>]_vars


\* ------------------------------------------------------ reservation claims
RECURSIVE ItemsQuantity(_, _)
\* The quantities the items of a list ask of inventory id, summed.
ItemsQuantity(items, id) ==
    IF items = <<>> THEN 0
    ELSE (IF Head(items).inventory_id = id THEN Head(items).quantity ELSE 0)
         + ItemsQuantity(Tail(items), id)

RECURSIVE PendingQuantity(_, _)
\* The same over the items of the pending requests of a list.
PendingQuantity(rs, id) ==
    IF rs = <<>> THEN 0
    ELSE (IF Head(rs).status = "pending" THEN ItemsQuantity(Head(rs).items, id) ELSE 0)
         + PendingQuantity(Tail(rs), id)

\* C28: in every committed state, each inventory's reserved_qty is the sum
\* of the quantities of the FulfillmentItems that name it and belong to
\* pending requests.
C28_ReservedIsSumOfPendingItems ==
    \A id \in InventoryIds :
        inventories[id].reserved_qty = PendingQuantity(requests, id)


\* C29: when delete_fulfillment_request and fulfill_request run concurrently
\* on the same pending request, exactly one takes effect: a delete that
\* succeeds releases the reservations of a request that was not fulfilled,
\* and a fulfill that succeeds consumes those of a request that was not
\* deleted, so the quantities are never both consumed and released.
C29_DeleteOrFulfillNotBoth ==
    [][\A p \in Procs :
          /\ (pc[p] = "delete_locked" /\ pc'[p] = "done" /\ result'[p] = "ok")
                => requests[work[p].request].status # "fulfilled"
          /\ (pc[p] = "fulfill_locked" /\ pc'[p] = "done" /\ result'[p] = "ok")
                => requests[work[p].request].status # "deleted"]_vars

\* C30: the deposit credited to the balance equals the amount charged at
\* the gateway: for every accepted PaymentRequest amount, whatever its
\* number of fraction digits, the cents stored on the Payment and the cents
\* the successful-payment handler credits equal the cents sent to the gateway.
C30_CreditedEqualsCharged ==
    money.op = "payment" =>
        /\ money.stored = money.gateway
        /\ money.credited = money.gateway
====
